---- MODULE Spec2Model ----
(***************************************************************************)
(* Search service: the indexing orchestrator (IndexingService and its      *)
(* endpoints), the IndexJob records it writes, and the autocomplete        *)
(* engine (AutoCompleteService).                                           *)
(*                                                                         *)
(* Every request is handled by a worker (one coroutine with its own        *)
(* session).  A worker's steps are the awaits of the handler: a step       *)
(* runs the code up to and including one store call, so that requests      *)
(* interleave exactly at the store calls.  Every store call may raise;     *)
(* a commit that raises commits nothing.  The variables store, jobs and    *)
(* suggestions hold the committed rows of the three tables.                *)
(***************************************************************************)
EXTENDS Integers, Sequences, FiniteSets, TLC

\* ---------------------------------------------------------------- bounds
\* Longest batch submitted to bulk_index, and the number of requests the
\* service handles in one run of the model.
MaxBatch == 2
MaxOps == 2

\* The number of track_suggestion calls in one run of the model.
MaxTracks == 3

\* The number of search requests that are executed in one run of the model.
MaxSearches == 2

\* The number of items a service answers with at most.
MaxItems == 2

\* The length of the texts that are highlighted, at most.
MaxText == 3

\* Concurrent request handlers, and the external document keys in use.
Workers == {1, 2}
DocIds == {1, 2}

\* ----------------------------------------------------------- primitives
NULL == "NULL"
NoDate == <<>>

\* datetime.fromisoformat on the strings the model submits: a well-formed
\* ISO date parses to a (year, month, day) value, anything else raises
\* ValueError.
IsIsoFormat(s) == s \in {"2024-01-01", "2025-06-30"}

FromIsoFormat(s) ==
    CASE s = "2024-01-01" -> <<2024, 1, 1>>
      [] s = "2025-06-30" -> <<2025, 6, 30>>

\* published_at as index_document and update_index compute it: None when
\* the request carries none or when parsing raises ValueError.
ParsePublishedAt(s) ==
    IF s = NULL THEN NoDate
    ELSE IF IsIsoFormat(s) THEN FromIsoFormat(s) ELSE NoDate

\* IndexDocumentRequest: two payloads per document_id.
Payload(v) ==
    IF v = 1
    THEN [document_type |-> "article", title |-> "Ocean Policy",
          content |-> "ocean conservation", language |-> "en",
          metadata |-> "tags=sea", author_id |-> "a1",
          author_name |-> "Ann", status |-> "published",
          published_at |-> "2024-01-01"]
    ELSE [document_type |-> "story", title |-> "Updated Title",
          content |-> "Updated content", language |-> "es",
          metadata |-> "tags=none", author_id |-> NULL,
          author_name |-> NULL, status |-> NULL,
          published_at |-> "not-a-date"]

MakeRequest(d, v) ==
    [document_id |-> d] @@ Payload(v)

Requests == {MakeRequest(1, 1), MakeRequest(1, 2), MakeRequest(2, 1)}

NoRequest == [document_id |-> 0] @@ Payload(2)

\* A SearchIndex row.  id 0 is the absent row (None).
NoRow ==
    [id |-> 0, document_id |-> 0, document_type |-> NULL, title |-> NULL,
     content |-> NULL, language |-> NULL, metadata |-> NULL,
     author_id |-> NULL, author_name |-> NULL, status |-> NULL,
     published_at |-> NoDate, indexed_at |-> 0]

\* ---------------------------------------------------------------- state
\* store, jobs: the committed rows of search_indexes and index_jobs (a job's
\* id is its place in jobs, in creation order); nextId: the next fresh row
\* id.  proc: each worker's place in its handler and the handler's locals.
\* A bulk_index worker holds the batch as its length n, the position i of
\* the loop and the document at that position (request): the documents of
\* a batch are arbitrary and read once each, in order, so each is drawn
\* when the loop reaches it.  response: the last answer sent; seen: the
\* last answer of list_index_jobs.  Recorded for the properties only:
\* submitted (per job, the length of the batch), and in proc the
\* document ids whose index_document call returned (indexed) and the
\* numbers of index_document calls that returned and that raised.
\* suggestions: the rows of search_suggestions; clock: the reading of
\* datetime.utcnow in track_suggestion; suggested: the last request to
\* get_suggestions or cleanup_suggestions and its answer (with the
\* statements get_suggestions executed for it).
\* queryLog: the rows of search_queries, in the order of their insertion;
\* searched: the last request to search or get_facets and its answer.
VARIABLES store, nextId, jobs, submitted, proc, started, response, seen,
          suggestions, clock, suggested, queryLog, searched, fetching,
          clicked, tracking, tracked, searching, highlighting

indexVars == <<store, nextId, jobs, submitted, proc, started, response, seen>>
autoVars == <<suggestions, clock, suggested>>
searchVars == <<queryLog, searched>>
trackVars == <<tracking, tracked>>
extVars == <<fetching, clicked, trackVars, searching, highlighting>>
vars == <<indexVars, autoVars, searchVars, extVars>>

Idle ==
    [pc |-> "idle", op |-> "none", request |-> NoRequest, n |-> 0,
     i |-> 0, processed |-> 0, failed |-> 0, job |-> 0, existing |-> NoRow,
     indexed |-> {}, returned |-> 0, raised |-> 0]

\* What a handler answers: the operation, how it ended ("ok", "not_found"
\* for the absence signal, "error" for an exception that reached the
\* endpoint) and the value returned (a row id, a job id, a row count).
Response(op, result, value) ==
    [op |-> op, result |-> result, value |-> value]

\* What the autocomplete service answers: to get_suggestions the list
\* (AutoCompleteResponse.suggestions), to cleanup_suggestions the rowcount.
Suggested(op, query, language, limit, result, statements, min_usage, rowcount) ==
    [op |-> op, query |-> query, language |-> language, limit |-> limit,
     suggestions |-> result, statements |-> statements,
     min_usage |-> min_usage, rowcount |-> rowcount]

\* A call of fetch_all_documents: where it is, the source it fetches
\* next, all_documents, and for every source fetched so far what the
\* source answered.
Fetching(pc, i, all_documents, answers) ==
    [pc |-> pc, i |-> i, all_documents |-> all_documents, answers |-> answers]

\* A call of track_suggestion between its select and its commit: the text
\* and the language it was called with and the row its select returned.
Tracking(pc, text, language, found) ==
    [pc |-> pc, text |-> text, language |-> language, found |-> found]

NoTracking == Tracking("idle", <<>>, NULL, {})

\* What track_click was called with and what it returned.
Clicked(op, query_id, clicked_result_id, result) ==
    [op |-> op, query_id |-> query_id,
     clicked_result_id |-> clicked_result_id, result |-> result]

\* SearchRequest, with the fields the model's requests set.
SearchRequest(query, language, page, page_size, sort_by, sort_order) ==
    [query |-> query, document_types |-> NULL, language |-> language,
     status |-> NULL, date_from |-> NULL, date_to |-> NULL,
     page |-> page, page_size |-> page_size,
     sort_by |-> sort_by, sort_order |-> sort_order, highlight |-> TRUE]

\* A search request with date bounds (strings, as the schema has them).
Dated(request, date_from, date_to) ==
    [request EXCEPT !.date_from = date_from, !.date_to = date_to]

NoSearchRequest == SearchRequest(<<>>, NULL, 0, 0, NULL, NULL)

\* A call of search between its steps: the request, the query compiled,
\* the results and the total_count the store returned, and the number of
\* rows search_queries had when the call began.
Searching(pc, request, results, total_count, logged) ==
    [pc |-> pc, request |-> request, results |-> results,
     total_count |-> total_count, logged |-> logged]

NoSearching == Searching("idle", NoSearchRequest, <<>>, 0, 0)

\* What the search and the facet endpoints answer: status 422 for a request
\* the schema rejects, else SearchResponse or FacetResponse; request is the
\* request answered, statements the statements executed on search_indexes
\* for it.
Searched(op, status, request, results, total_count, total_pages, facets, statements) ==
    [op |-> op, status |-> status, request |-> request, results |-> results,
     total_count |-> total_count, total_pages |-> total_pages,
     facets |-> facets, statements |-> statements]

Init ==
    /\ store = {}
    /\ nextId = 1
    /\ jobs = <<>>
    /\ submitted = <<>>
    /\ proc = [p \in Workers |-> Idle]
    /\ started = 0
    /\ response = Response("none", "none", 0)
    /\ seen = <<>>
    /\ suggestions = {}
    /\ clock = 0
    /\ suggested = Suggested("none", <<>>, NULL, 0, <<>>, <<>>, 0, 0)
    /\ queryLog = <<>>
    /\ searched = Searched("none", 0, NoSearchRequest, <<>>, 0, 0, {}, <<>>)
    /\ fetching = Fetching("idle", 1, <<>>, <<>>)
    /\ clicked = Clicked("none", 0, NULL, FALSE)
    /\ tracking = [p \in Workers |-> NoTracking]
    /\ tracked = [calls |-> 0, returned |-> 0, raised |-> 0]
    /\ searching = NoSearching
    /\ highlighting = [text |-> <<>>, query |-> <<>>, highlighted |-> <<>>]

\* ------------------------------------------------- index_document (code)
\* The store calls of a handler and the ways each can end.
LookupFails == {"none", "execute"}
CommitFails == {"none", "commit"}

\* SearchIndex(...) of the create branch; uuid4() is the fresh id, and
\* indexed_at the insert's logical time.
NewRow(id, r) ==
    [id |-> id, document_id |-> r.document_id,
     document_type |-> r.document_type, title |-> r.title,
     content |-> r.content, language |-> r.language,
     metadata |-> r.metadata, author_id |-> r.author_id,
     author_name |-> r.author_name, status |-> r.status,
     published_at |-> ParsePublishedAt(r.published_at), indexed_at |-> id]

\* Overwrite with the assignment of content left out.
OverwriteKeepsContent(row, r) ==
    [row EXCEPT !.title = r.title,
                !.language = r.language, !.metadata = r.metadata,
                !.author_id = r.author_id, !.author_name = r.author_name,
                !.status = r.status,
                !.published_at = ParsePublishedAt(r.published_at)]

\* Overwrite with document_type assigned too.
OverwriteWithType(row, r) ==
    [row EXCEPT !.document_type = r.document_type,
                !.title = r.title, !.content = r.content,
                !.language = r.language, !.metadata = r.metadata,
                !.author_id = r.author_id, !.author_name = r.author_name,
                !.status = r.status,
                !.published_at = ParsePublishedAt(r.published_at)]

\* The assignments of the update branch (and of update_index).
Overwrite(row, r) ==
    [row EXCEPT !.title = r.title, !.content = r.content,
                !.language = r.language, !.metadata = r.metadata,
                !.author_id = r.author_id, !.author_name = r.author_name,
                !.status = r.status,
                !.published_at = ParsePublishedAt(r.published_at)]

RowsIn(rows, d) == {x \in rows : x.document_id = d}

RowsOf(d) == RowsIn(store, d)

\* select(SearchIndex).where(document_id == d) then scalar_one_or_none():
\* raises when the execute fails and when more than one row matches.
LookupExisting(d, fail) ==
    LET rows == RowsOf(d)
    IN IF fail = "execute" \/ Cardinality(rows) > 1
       THEN [raised |-> TRUE, row |-> NoRow]
       ELSE [raised |-> FALSE,
             row |-> IF rows = {} THEN NoRow ELSE CHOOSE x \in rows : TRUE]

\* The commit and refresh that end index_document and update_index: the
\* update of the row found by the lookup, or the insert of a new row.  A
\* failed commit changes nothing; an update whose row is gone raises.
CommitIndexed(r, existing, fail) ==
    IF fail = "commit"
    THEN [raised |-> TRUE, store |-> store, nextId |-> nextId, row |-> NoRow]
    ELSE IF existing # NoRow
    THEN IF \E x \in store : x.id = existing.id
         THEN LET cur == CHOOSE x \in store : x.id = existing.id
                  new == Overwrite(cur, r)
              IN [raised |-> FALSE,
                  store |-> (store \ {cur}) \cup {new},
                  nextId |-> nextId, row |-> new]
         ELSE [raised |-> TRUE, store |-> store, nextId |-> nextId,
               row |-> NoRow]
    ELSE LET new == NewRow(nextId, r)
         IN [raised |-> FALSE, store |-> store \cup {new},
             nextId |-> nextId + 1, row |-> new]

\* A new request goes to the first worker that has none in hand.
Accepts(p) ==
    /\ proc[p].pc = "idle"
    /\ started < MaxOps
    /\ \A q \in Workers : proc[q].pc = "idle" => p <= q

\* ------------------------------------------- POST /index/document
\* The handler answers and the worker is free again.
Answer(p, op, result, value) ==
    /\ proc' = [proc EXCEPT ![p] = Idle]
    /\ response' = Response(op, result, value)

\* index_document up to its lookup.  The endpoint turns any exception of
\* the service into HTTP 500.
IndexDocumentStart(p, r, fail) ==
    /\ Accepts(p)
    /\ started' = started + 1
    /\ LET res == LookupExisting(r.document_id, fail)
       IN IF res.raised
          THEN Answer(p, "index_document", "error", 0)
          ELSE /\ proc' = [proc EXCEPT ![p] =
                     [Idle EXCEPT !.pc = "commit", !.op = "index_document",
                                  !.request = r, !.existing = res.row]]
               /\ UNCHANGED response
    /\ UNCHANGED <<store, nextId, jobs, submitted, seen>>

IndexDocumentCommit(p, fail) ==
    /\ proc[p].pc = "commit"
    /\ proc[p].op = "index_document"
    /\ LET res == CommitIndexed(proc[p].request, proc[p].existing, fail)
       IN /\ store' = res.store
          /\ nextId' = res.nextId
          /\ IF res.raised
             THEN Answer(p, "index_document", "error", 0)
             ELSE Answer(p, "index_document", "ok", res.row.id)
    /\ UNCHANGED <<jobs, submitted, started, seen>>

\* ------------------------------------------------- bulk_index (code)
\* IndexJob(...) as bulk_index and reindex_all build it; the counters take
\* the column default 0 and completed_at is unset.
NewJob(id, type, status, started_at) ==
    [id |-> id, job_type |-> type, status |-> status,
     documents_processed |-> 0, documents_failed |-> 0,
     started_at |-> started_at, completed_at |-> NULL]

\* Counted with no try/except: a raise ends the loop.
CountedAborts(w, raised) ==
    [w EXCEPT !.processed = IF raised THEN @ ELSE @ + 1,
              !.failed = IF raised THEN @ + 1 ELSE @,
              !.i = @ + 1,
              !.existing = NoRow,
              !.pc = IF raised \/ w.i + 1 > w.n THEN "finish" ELSE "lookup"]

\* Counted with processed += 1 placed before the call: a raise counts
\* as processed and as failed.
CountedTwice(w, raised) ==
    [w EXCEPT !.processed = @ + 1,
              !.failed = IF raised THEN @ + 1 ELSE @,
              !.i = @ + 1,
              !.existing = NoRow,
              !.pc = IF w.i + 1 > w.n THEN "finish" ELSE "lookup"]

\* The try/except around index_document in the loop: one attempt counted
\* as processed or as failed, and the loop moves to the next document.
Counted(w, raised) ==
    [w EXCEPT !.processed = IF raised THEN @ ELSE @ + 1,
              !.failed = IF raised THEN @ + 1 ELSE @,
              !.i = @ + 1,
              !.existing = NoRow,
              !.pc = IF w.i + 1 > w.n THEN "finish" ELSE "lookup"]

\* FinalStatus deciding on processed instead of failed.
FinalStatusAnySuccess(processed, failed) ==
    IF processed > 0 THEN "completed" ELSE "failed"

\* FinalStatus sending a batch with failures back to the queue.
FinalStatusRetry(processed, failed) ==
    IF failed = 0 THEN "completed" ELSE "pending"

\* JobStatus.COMPLETED if failed == 0 else JobStatus.FAILED
FinalStatus(processed, failed) ==
    IF failed = 0 THEN "completed" ELSE "failed"

\* Finished with the assignment of completed_at left out.
FinishedNoStamp(job, processed, failed) ==
    [job EXCEPT !.documents_processed = processed,
                !.documents_failed = failed,
                !.status = FinalStatus(processed, failed)]

\* The job as the final commit of bulk_index writes it.
Finished(job, processed, failed) ==
    [job EXCEPT !.documents_processed = processed,
                !.documents_failed = failed,
                !.status = FinalStatus(processed, failed),
                !.completed_at = "utcnow"]

\* POST /index/bulk up to the commit that creates the running job.  When
\* that commit raises no job exists and the endpoint answers HTTP 500.
BulkIndexStart(p, n, fail) ==
    /\ Accepts(p)
    /\ started' = started + 1
    /\ IF fail = "commit"
       THEN /\ Answer(p, "bulk_index", "error", 0)
            /\ UNCHANGED <<jobs, submitted>>
       ELSE /\ jobs' = Append(jobs, NewJob(Len(jobs) + 1, "bulk", "running", "utcnow"))
            /\ submitted' = Append(submitted, n)
            /\ proc' = [proc EXCEPT ![p] =
                  [Idle EXCEPT !.pc = IF n = 0 THEN "finish" ELSE "lookup",
                               !.op = "bulk_index", !.n = n,
                               !.i = 1, !.job = Len(jobs) + 1]]
            /\ UNCHANGED response
    /\ UNCHANGED <<store, nextId, seen>>

\* index_document(doc) of the loop, up to its lookup; doc is the document
\* at position i of the batch.
BulkLookup(p, doc, fail) ==
    /\ proc[p].pc = "lookup"
    /\ proc[p].op = "bulk_index"
    /\ LET w == proc[p]
           res == LookupExisting(doc.document_id, fail)
       IN proc' = [proc EXCEPT ![p] =
            IF res.raised
            THEN [Counted(w, TRUE) EXCEPT !.raised = @ + 1]
            ELSE [w EXCEPT !.pc = "commit", !.request = doc,
                           !.existing = res.row]]
    /\ UNCHANGED <<store, nextId, jobs, submitted, started, response, seen>>

\* index_document(doc) of the loop, its commit and refresh.
BulkCommit(p, fail) ==
    /\ proc[p].pc = "commit"
    /\ proc[p].op = "bulk_index"
    /\ LET w == proc[p]
           res == CommitIndexed(w.request, w.existing, fail)
       IN /\ store' = res.store
          /\ nextId' = res.nextId
          /\ proc' = [proc EXCEPT ![p] =
               [Counted(w, res.raised) EXCEPT
                  !.request = NoRequest,
                  !.raised = IF res.raised THEN @ + 1 ELSE @,
                  !.returned = IF res.raised THEN @ ELSE @ + 1,
                  !.indexed = IF res.raised THEN @
                              ELSE @ \cup {w.request.document_id}]]
    /\ UNCHANGED <<jobs, submitted, started, response, seen>>

\* The code after the loop: the job's counters, status and completed_at,
\* then commit and refresh, neither inside a try.  A commit that raises
\* leaves the job row as it was; the endpoint answers HTTP 500.
BulkFinish(p, fail) ==
    /\ proc[p].pc = "finish"
    /\ proc[p].op = "bulk_index"
    /\ LET w == proc[p]
       IN /\ jobs' = IF fail = "commit" THEN jobs
                     ELSE [jobs EXCEPT ![w.job] = Finished(@, w.processed, w.failed)]
          /\ IF fail = "none"
             THEN Answer(p, "bulk_index", "ok", w.job)
             ELSE Answer(p, "bulk_index", "error", 0)
    /\ UNCHANGED <<store, nextId, submitted, started, seen>>

\* ------------------------------------------------------ PUT /index/{id}
\* update_index up to its lookup; None makes the endpoint answer 404.  The
\* row is found by the document_id of the path; the one in the body is
\* never read.
\* UpdateIndexStart going on to the commit when no row is found.
UpdateIndexStartUpserts(p, d, body, fail) ==
    /\ Accepts(p)
    /\ started' = started + 1
    /\ LET res == LookupExisting(d, fail)
           r == [body EXCEPT !.document_id = d]
       IN IF res.raised
          THEN Answer(p, "update_index", "error", 0)
          ELSE /\ proc' = [proc EXCEPT ![p] =
                     [Idle EXCEPT !.pc = "commit", !.op = "update_index",
                                  !.request = r, !.existing = res.row]]
               /\ UNCHANGED response
    /\ UNCHANGED <<store, nextId, jobs, submitted, seen>>

UpdateIndexStart(p, d, body, fail) ==
    /\ Accepts(p)
    /\ started' = started + 1
    /\ LET res == LookupExisting(d, fail)
           r == [body EXCEPT !.document_id = d]
       IN IF res.raised
          THEN Answer(p, "update_index", "error", 0)
          ELSE IF res.row = NoRow
          THEN Answer(p, "update_index", "not_found", 0)
          ELSE /\ proc' = [proc EXCEPT ![p] =
                     [Idle EXCEPT !.pc = "commit", !.op = "update_index",
                                  !.request = r, !.existing = res.row]]
               /\ UNCHANGED response
    /\ UNCHANGED <<store, nextId, jobs, submitted, seen>>

UpdateIndexCommit(p, fail) ==
    /\ proc[p].pc = "commit"
    /\ proc[p].op = "update_index"
    /\ LET res == CommitIndexed(proc[p].request, proc[p].existing, fail)
       IN /\ store' = res.store
          /\ nextId' = res.nextId
          /\ IF res.raised
             THEN Answer(p, "update_index", "error", 0)
             ELSE Answer(p, "update_index", "ok", res.row.id)
    /\ UNCHANGED <<jobs, submitted, started, seen>>

\* --------------------------------------------------- DELETE /index/{id}
\* DeleteFromIndex returning true whatever the rowcount.
DeleteFromIndexAlwaysTrue(p, d, fail) ==
    /\ Accepts(p)
    /\ started' = started + 1
    /\ store' = IF fail = "commit" THEN store ELSE store \ RowsOf(d)
    /\ IF fail = "commit"
       THEN Answer(p, "delete_from_index", "error", 0)
       ELSE Answer(p, "delete_from_index", "ok", Cardinality(RowsOf(d)))
    /\ UNCHANGED <<nextId, jobs, submitted, seen>>

\* delete(SearchIndex).where(document_id == d), commit; rowcount > 0.
DeleteFromIndex(p, d, fail) ==
    /\ Accepts(p)
    /\ started' = started + 1
    /\ store' = IF fail = "commit" THEN store ELSE store \ RowsOf(d)
    /\ IF fail = "commit"
       THEN Answer(p, "delete_from_index", "error", 0)
       ELSE IF Cardinality(RowsOf(d)) > 0
       THEN Answer(p, "delete_from_index", "ok", Cardinality(RowsOf(d)))
       ELSE Answer(p, "delete_from_index", "not_found", 0)
    /\ UNCHANGED <<nextId, jobs, submitted, seen>>

\* -------------------------------------------------- POST /index/reindex
\* reindex_all: the pending job is added and committed, and returned.
ReindexAll(p, fail) ==
    /\ Accepts(p)
    /\ started' = started + 1
    /\ IF fail = "commit"
       THEN UNCHANGED <<jobs, submitted>>
       ELSE /\ jobs' = Append(jobs, NewJob(Len(jobs) + 1, "full_reindex", "pending", NULL))
            /\ submitted' = Append(submitted, 0)
    /\ IF fail = "none"
       THEN Answer(p, "reindex_all", "ok", Len(jobs) + 1)
       ELSE Answer(p, "reindex_all", "error", 0)
    /\ UNCHANGED <<store, nextId, seen>>

\* ----------------------------------------------- DELETE /management/clear
\* ClearIndex returning the number of rows left.
ClearIndexCountsLeft(p, fail) ==
    /\ Accepts(p)
    /\ started' = started + 1
    /\ store' = IF fail = "commit" THEN store ELSE {}
    /\ IF fail = "commit"
       THEN Answer(p, "clear_index", "error", 0)
       ELSE Answer(p, "clear_index", "ok", Cardinality(store'))
    /\ UNCHANGED <<nextId, jobs, submitted, seen>>

\* delete(SearchIndex), commit; rowcount.
ClearIndex(p, fail) ==
    /\ Accepts(p)
    /\ started' = started + 1
    /\ store' = IF fail = "commit" THEN store ELSE {}
    /\ IF fail = "commit"
       THEN Answer(p, "clear_index", "error", 0)
       ELSE Answer(p, "clear_index", "ok", Cardinality(store))
    /\ UNCHANGED <<nextId, jobs, submitted, seen>>

\* -------------------------------------------------- GET /management/jobs
JobStatuses == {"pending", "running", "completed", "failed"}

RECURSIVE Newest(_, _, _)
\* The jobs that pass the status filter, newest first, at most limit.
Newest(js, status, limit) ==
    IF js = <<>> \/ limit = 0 THEN <<>>
    ELSE LET last == js[Len(js)]
             rest == SubSeq(js, 1, Len(js) - 1)
         IN IF status = NULL \/ last.status = status
            THEN <<last>> \o Newest(rest, status, limit - 1)
            ELSE Newest(rest, status, limit)

\* list_index_jobs is one read of the committed job rows, with no lock,
\* at any moment of any other request; seen is the answer the reader got.
\* Reads change nothing else, so their number needs no bound.
ListIndexJobs(status, limit) ==
    /\ seen' = Newest(jobs, status, limit)
    /\ UNCHANGED <<store, nextId, jobs, submitted, proc, started, response>>

\* ---------------------------------------------------- autocomplete (code)
\* A text is the sequence of its characters, so that prefixes and trigrams
\* are computed from it.  The texts are single lower-case words.
Ocean == <<"o", "c", "e", "a", "n">>
Oceanside == <<"o", "c", "e", "a", "n", "s", "i", "d", "e">>
Ocelot == <<"o", "c", "e", "l", "o", "t">>
Texts == {Ocean, Oceanside, Ocelot}

\* The queries: the empty one, one of one character, one that is a prefix
\* of every text.
Queries == {<<>>, <<"o">>, <<"o", "c", "e">>}
Languages == {"en", "es"}
Limits == {1, 2, 3}

\* pg_trgm: the trigrams of a word padded with two blanks before and one
\* after; similarity is the share of common trigrams, and the % operator
\* holds from the threshold 0.3 on.
Trigrams(w) ==
    LET padded == <<" ", " ">> \o w \o <<" ">>
    IN {SubSeq(padded, k, k + 2) : k \in 1..(Len(padded) - 2)}

Common(a, b) == Cardinality(Trigrams(a) \cap Trigrams(b))
Union(a, b) == Cardinality(Trigrams(a) \cup Trigrams(b))

Similar(text, query) == 10 * Common(text, query) >= 3 * Union(text, query)

\* similarity(a, query) > similarity(b, query), as a comparison of fractions.
MoreSimilar(a, b, query) ==
    Common(a, query) * Union(b, query) > Common(b, query) * Union(a, query)

\* suggestion_text ILIKE 'query%' on lower-case text.
StartsWith(text, query) ==
    /\ Len(query) <= Len(text)
    /\ SubSeq(text, 1, Len(query)) = query

\* The optional language filter of the three statements.
InLanguage(rows, language) ==
    IF language = NULL THEN rows ELSE {x \in rows : x.language = language}

\* The answers the store may give to a SELECT over rows with an ORDER BY:
\* every arrangement of the rows in which no row stands before a row the
\* ORDER BY puts first (first: the pairs <<a, b>> with a put before b);
\* rows the ORDER BY does not tell apart come in any order.
Ordered(rows, first) ==
    {s \in [1..Cardinality(rows) -> rows] :
        /\ \A k, m \in 1..Cardinality(rows) : k # m => s[k] # s[m]
        /\ \A k, m \in 1..Cardinality(rows) : k < m => <<s[m], s[k]>> \notin first}

\* .limit(n)
Limit(s, n) == SubSeq(s, 1, IF n < Len(s) THEN n ELSE Len(s))

TextsOf(s) == [k \in 1..Len(s) |-> s[k].suggestion_text]

\* AddUnique without the membership test.
AddAll(suggestions_, prefix) == suggestions_ \o prefix

RECURSIVE AddUnique(_, _)
\* for suggestion in prefix_suggestions:
\*     if suggestion not in suggestions: suggestions.append(suggestion)
AddUnique(suggestions_, prefix) ==
    IF prefix = <<>> THEN suggestions_
    ELSE LET head == Head(prefix)
             kept == IF \E k \in 1..Len(suggestions_) : suggestions_[k] = head
                     THEN suggestions_
                     ELSE Append(suggestions_, head)
         IN AddUnique(kept, Tail(prefix))

\* PopularFirst without the second key.
PopularFirstByUsage(a, b) == a.usage_count > b.usage_count

\* ORDER BY usage_count DESC, last_used_at DESC
PopularFirst(a, b) ==
    \/ a.usage_count > b.usage_count
    \/ a.usage_count = b.usage_count /\ a.last_used_at > b.last_used_at

\* ORDER BY usage_count DESC
UsedFirst(a, b) == a.usage_count > b.usage_count

\* The possible results of get_popular_searches.
PopularSearches(language, limit) ==
    LET rows == InLanguage(suggestions, language)
        first == {pair \in rows \X rows : PopularFirst(pair[1], pair[2])}
    IN {TextsOf(Limit(s, limit)) : s \in Ordered(rows, first)}

\* The possible results of the similarity statement.
SimilarityMatches(query, language, limit) ==
    LET rows == {x \in InLanguage(suggestions, language) :
                    Similar(x.suggestion_text, query)}
        SimilarFirst(a, b) ==
            \/ MoreSimilar(a.suggestion_text, b.suggestion_text, query)
            \/ /\ ~MoreSimilar(b.suggestion_text, a.suggestion_text, query)
               /\ a.usage_count > b.usage_count
        first == {pair \in rows \X rows : SimilarFirst(pair[1], pair[2])}
    IN {TextsOf(Limit(s, limit)) : s \in Ordered(rows, first)}

\* The rows of the prefix statement, before its ORDER BY and LIMIT.
PrefixRows(query, language) ==
    {x \in InLanguage(suggestions, language) :
        StartsWith(x.suggestion_text, query)}

\* The possible results of the prefix statement.
PrefixMatches(query, language, limit) ==
    LET rows == PrefixRows(query, language)
        first == {pair \in rows \X rows : UsedFirst(pair[1], pair[2])}
    IN {TextsOf(Limit(s, limit)) : s \in Ordered(rows, first)}

\* if not query or len(query) < 2
ShortQuery(query) == query = <<>> \/ Len(query) < 2

\* The possible results of get_suggestions, each with the statements
\* executed to get it.
Suggestions(query, language, limit) ==
    IF ShortQuery(query)
    THEN {[suggestions |-> popular, statements |-> <<"popular">>] :
             popular \in PopularSearches(language, limit)}
    ELSE UNION {
           IF Len(similar) < limit
           THEN {[suggestions |-> Limit(AddUnique(similar, prefix), limit),
                  statements |-> <<"similarity", "prefix">>] :
                    prefix \in PrefixMatches(query, language, limit - Len(similar))}
           ELSE {[suggestions |-> Limit(similar, limit),
                  statements |-> <<"similarity">>]} :
           similar \in SimilarityMatches(query, language, limit)}

\* GET /autocomplete
GetSuggestions(query, language, limit) ==
    /\ \E answer \in Suggestions(query, language, limit) :
          suggested' = Suggested("get_suggestions", query, language, limit,
                                 answer.suggestions, answer.statements, 0, 0)
    /\ UNCHANGED <<suggestions, clock>>
    /\ UNCHANGED <<indexVars, extVars>>

\* The query parameters of GET /autocomplete that pass their constraints;
\* a request that breaks one is answered 422 before the handler is called.
ValidAutocomplete(query, limit) ==
    /\ Len(query) \in 1..100
    /\ limit \in 1..50

\* GET /autocomplete with its parameters validated.
GetAutocomplete(query, language, limit) ==
    IF ValidAutocomplete(query, limit)
    THEN GetSuggestions(query, language, limit)
    ELSE /\ suggested' = Suggested("rejected", query, language, limit,
                                   <<>>, <<>>, 0, 0)
         /\ UNCHANGED <<suggestions, clock>>
         /\ UNCHANGED <<indexVars, extVars>>

\* track_suggestion: the row of the text gets one more use, or the text
\* gets its row.
\* Tracked with the increment left out.
TrackedOnce(rows, text, language, now) ==
    LET found == {x \in rows : x.suggestion_text = text}
    IN IF found # {}
       THEN (rows \ found) \cup {[x EXCEPT !.last_used_at = now] : x \in found}
       ELSE rows \cup
               {[suggestion_text |-> text, language |-> language,
                 usage_count |-> 1, last_used_at |-> now]}

\* Lines 111-131: the row of the text with one more use, or a new row.
Tracked(rows, text, language, now) ==
    LET found == {x \in rows : x.suggestion_text = text}
    IN IF found # {}
       THEN (rows \ found) \cup
               {[x EXCEPT !.usage_count = @ + 1, !.last_used_at = now] :
                   x \in found}
       ELSE rows \cup
               {[suggestion_text |-> text, language |-> language,
                 usage_count |-> 1, last_used_at |-> now]}

TrackSuggestion(text, language) ==
    /\ clock < MaxTracks
    /\ clock' = clock + 1
    /\ suggestions' = Tracked(suggestions, text, language, clock')
    /\ UNCHANGED suggested
    /\ UNCHANGED <<indexVars, extVars>>

\* track_suggestion up to its select: the session holds the row of the
\* text as it is now, or none.
TrackSelect(p, text, language) ==
    /\ tracking[p].pc = "idle"
    /\ tracked.calls < MaxTracks
    /\ tracking' = [tracking EXCEPT ![p] =
          Tracking("commit", text, language,
                   {x \in suggestions : x.suggestion_text = text})]
    /\ tracked' = [tracked EXCEPT !.calls = @ + 1]
    /\ UNCHANGED <<indexVars, autoVars, searchVars, fetching, clicked, searching, highlighting>>

\* track_suggestion from its select on.  With a row the flush is UPDATE
\* ... SET usage_count = (the count read + 1), last_used_at = now WHERE
\* id = (the row read); with none it is an INSERT, which the unique
\* constraint on suggestion_text turns into IntegrityError when a row of
\* the text has been committed since the select.
TrackCommit(p) ==
    /\ tracking[p].pc = "commit"
    /\ LET call == tracking[p]
           now == clock + 1
           current == {x \in suggestions : x.suggestion_text = call.text}
       IN IF call.found # {}
          THEN /\ suggestions' =
                     (suggestions \ current) \cup
                        {[x EXCEPT !.usage_count = @ + 1, !.last_used_at = now] :
                            x \in IF current = {} THEN {} ELSE call.found}
               /\ clock' = now
               /\ tracked' = [tracked EXCEPT !.returned = @ + 1]
          ELSE IF current # {}
          THEN /\ tracked' = [tracked EXCEPT !.raised = @ + 1]
               /\ UNCHANGED <<suggestions, clock>>
          ELSE /\ suggestions' = Tracked(suggestions, call.text, call.language, now)
               /\ clock' = now
               /\ tracked' = [tracked EXCEPT !.returned = @ + 1]
    /\ tracking' = [tracking EXCEPT ![p] = NoTracking]
    /\ UNCHANGED suggested
    /\ UNCHANGED <<indexVars, searchVars, fetching, clicked, searching, highlighting>>

\* The thresholds cleanup_suggestions is called with.
MinUsages == {1, 2, 3, 4}

\* Unused with <= for <.
UnusedInclusive(rows, min_usage) == {x \in rows : x.usage_count <= min_usage}

\* DELETE ... WHERE usage_count < min_usage: the rows deleted.
Unused(rows, min_usage) == {x \in rows : x.usage_count < min_usage}

\* cleanup_suggestions
CleanupSuggestions(min_usage) ==
    /\ suggestions' = suggestions \ Unused(suggestions, min_usage)
    /\ suggested' = Suggested("cleanup_suggestions", <<>>, NULL, 0, <<>>, <<>>,
                              min_usage,
                              Cardinality(Unused(suggestions, min_usage)))
    /\ UNCHANGED clock
    /\ UNCHANGED <<indexVars, extVars>>

\* ---------------------------------------------------------- search (code)
\* Query texts are sequences of characters, as the suggestion texts are.
Content == <<"c", "o", "n", "t", "e", "n", "t">>
Blank == <<" ">>

\* The lexemes to_tsvector makes of the texts the model indexes (words in
\* lower case, stemmed, stop words dropped).
Lexemes(text) ==
    CASE text = "Ocean Policy" -> {Ocean, <<"p", "o", "l", "i", "c", "i">>}
      [] text = "ocean conservation" ->
            {Ocean, <<"c", "o", "n", "s", "e", "r", "v">>}
      [] text = "Updated Title" ->
            {<<"u", "p", "d", "a", "t">>, <<"t", "i", "t", "l">>}
      [] text = "Updated content" -> {<<"u", "p", "d", "a", "t">>, Content}
      [] text = "Ann" -> {<<"a", "n", "n">>}
      [] OTHER -> {}

\* search_indexes_trigger: the vector of a row is made of its title
\* (weight A), content (B) and author_name (C) at every insert and update.
SearchVector(row) ==
    [A |-> Lexemes(row.title), B |-> Lexemes(row.content),
     C |-> Lexemes(row.author_name)]

\* The length of the first word of s.
RECURSIVE WordLen(_)
WordLen(s) ==
    IF s = <<>> \/ Head(s) = " " THEN 0 ELSE 1 + WordLen(Tail(s))

\* query.strip().split()
RECURSIVE Terms(_)
Terms(s) ==
    IF s = <<>> THEN <<>>
    ELSE IF Head(s) = " " THEN Terms(Tail(s))
    ELSE <<SubSeq(s, 1, WordLen(s))>>
            \o Terms(SubSeq(s, WordLen(s) + 1, Len(s)))

\* _prepare_search_query: the operands of the tsquery text, "term:*" for
\* every term joined by &, or the text "*" when there is no term.
PrepareSearchQuery(query) ==
    IF Terms(query) = <<>>
    THEN <<[word |-> <<"*">>, prefix |-> FALSE]>>
    ELSE [k \in 1..Len(Terms(query)) |->
             [word |-> Terms(query)[k], prefix |-> TRUE]]

\* to_tsquery: an operand that holds no letter or digit gives no lexeme and
\* is dropped (with a notice); the terms of the model are their own stems.
ToTsquery(prepared) ==
    SelectSeq(prepared, LAMBDA operand : operand.word # <<"*">>)

\* One operand against one lexeme.
OperandMatches(operand, lexeme) ==
    IF operand.prefix THEN StartsWith(lexeme, operand.word)
    ELSE lexeme = operand.word

\* search_vector @@ to_tsquery(...): every operand is found in the vector;
\* a query without lexemes matches no row.
Matches(row, tsquery) ==
    /\ tsquery # <<>>
    /\ \A k \in 1..Len(tsquery) :
          \E lexeme \in SearchVector(row).A \cup SearchVector(row).B
                           \cup SearchVector(row).C :
             OperandMatches(tsquery[k], lexeme)

\* ts_rank, in tenths: the weights 1.0, 0.4 and 0.2 of the classes A, B
\* and C in which the query is found.
TsRank(row, tsquery) ==
    LET Found(lexemes) ==
            \E k \in 1..Len(tsquery), lexeme \in lexemes :
               OperandMatches(tsquery[k], lexeme)
    IN (IF Found(SearchVector(row).A) THEN 10 ELSE 0)
       + (IF Found(SearchVector(row).B) THEN 4 ELSE 0)
       + (IF Found(SearchVector(row).C) THEN 2 ELSE 0)

\* a > b for two dates; in PostgreSQL a null sorts as the largest value.
DateAfter(a, b) ==
    IF a = NoDate THEN b # NoDate
    ELSE /\ b # NoDate
         /\ \/ a[1] > b[1]
            \/ a[1] = b[1] /\ a[2] > b[2]
            \/ a[1] = b[1] /\ a[2] = b[2] /\ a[3] > b[3]

\* published_at >= bound (lower) or published_at <= bound (upper) in SQL:
\* not true of a row whose published_at is null.
WithinBound(published_at, bound, lower) ==
    /\ published_at # NoDate
    /\ IF lower THEN ~DateAfter(bound, published_at)
       ELSE ~DateAfter(published_at, bound)

\* ApplySearchFilters with a date bound that does not parse matching no
\* row.
ApplySearchFiltersStrict(rows, request) ==
    {x \in rows :
        /\ request.document_types # NULL => x.document_type \in request.document_types
        /\ request.language # NULL => x.language = request.language
        /\ request.status # NULL => x.status = request.status
        /\ request.date_from # NULL =>
              /\ IsIsoFormat(request.date_from)
              /\ WithinBound(x.published_at, FromIsoFormat(request.date_from), TRUE)
        /\ request.date_to # NULL =>
              /\ IsIsoFormat(request.date_to)
              /\ WithinBound(x.published_at, FromIsoFormat(request.date_to), FALSE)}

\* SearchService._apply_filters, for the filters the model's requests use:
\* a date bound whose fromisoformat raises ValueError adds no condition.
ApplySearchFilters(rows, request) ==
    {x \in rows :
        /\ request.document_types # NULL => x.document_type \in request.document_types
        /\ request.language # NULL => x.language = request.language
        /\ request.status # NULL => x.status = request.status
        /\ (request.date_from # NULL /\ IsIsoFormat(request.date_from)) =>
              WithinBound(x.published_at, FromIsoFormat(request.date_from), TRUE)
        /\ (request.date_to # NULL /\ IsIsoFormat(request.date_to)) =>
              WithinBound(x.published_at, FromIsoFormat(request.date_to), FALSE)}

\* The rows a search request matches, before sorting and pagination.
SearchMatches(rows, request) ==
    ApplySearchFilters(
        {x \in rows : Matches(x, ToTsquery(PrepareSearchQuery(request.query)))},
        request)

\* The collation order of the titles the model indexes.
TitleKey(title) == IF title = "Ocean Policy" THEN 1 ELSE 2

\* _apply_sorting: the pairs <<a, b>> of rows of which the ORDER BY puts a
\* before b.
SortedFirst(rows, request) ==
    LET tsquery == ToTsquery(PrepareSearchQuery(request.query))
        Greater(a, b) ==
            IF request.sort_by = "relevance"
            THEN TsRank(a, tsquery) > TsRank(b, tsquery)
            ELSE IF request.sort_by = "date"
            THEN DateAfter(a.published_at, b.published_at)
            ELSE IF request.sort_by = "title"
            THEN TitleKey(a.title) > TitleKey(b.title)
            ELSE a.indexed_at > b.indexed_at
        descending ==
            request.sort_order = "desc"
               \/ request.sort_by \notin {"relevance", "date", "title"}
    IN {pair \in rows \X rows :
           IF descending THEN Greater(pair[1], pair[2])
           ELSE Greater(pair[2], pair[1])}

\* .offset(offset).limit(page_size)
Page(s, page, page_size) ==
    LET offset == (page - 1) * page_size
        last == IF offset + page_size < Len(s) THEN offset + page_size ELSE Len(s)
    IN SubSeq(s, offset + 1, last)

\* _highlight_text on the texts and the terms of the model: every
\* occurrence of the term, in any case, becomes <mark>term</mark>.
HighlightTerm(text, term) ==
    CASE text = "Ocean Policy" /\ term = Ocean -> "<mark>ocean</mark> Policy"
      [] text = "ocean conservation" /\ term = Ocean ->
            "<mark>ocean</mark> conservation"
      [] text = "Updated content" /\ term = Content ->
            "Updated <mark>content</mark>"
      [] OTHER -> text

RECURSIVE HighlightText(_, _)
HighlightText(text, terms) ==
    IF terms = <<>> THEN text
    ELSE HighlightText(HighlightTerm(text, Head(terms)), Tail(terms))

\* str.lower, on the letters of the texts that are highlighted.
Lower(c) ==
    CASE c = "O" -> "o"
      [] c = "C" -> "c"
      [] OTHER -> c

LowerText(text) == [k \in 1..Len(text) |-> Lower(text[k])]

\* pattern.sub("<mark>term</mark>", text) for the pattern of a term with
\* re.IGNORECASE: from left to right, every occurrence of the term in any
\* case that does not overlap the one before is replaced by the marker,
\* the term and the closing marker.
RECURSIVE Sub(_, _)
Sub(term, text) ==
    IF text = <<>> THEN <<>>
    ELSE IF /\ Len(term) <= Len(text)
            /\ LowerText(SubSeq(text, 1, Len(term))) = LowerText(term)
    THEN <<"<mark>">> \o term \o <<"</mark>">>
            \o Sub(term, SubSeq(text, Len(term) + 1, Len(text)))
    ELSE <<Head(text)>> \o Sub(term, Tail(text))

\* _highlight_text, letter by letter: the terms of query.lower().split()
\* are substituted one after the other.
RECURSIVE HighlightTerms(_, _)
HighlightTerms(text, terms) ==
    IF terms = <<>> THEN text
    ELSE HighlightTerms(Sub(LowerText(Head(terms)), text), Tail(terms))

\* The texts and the queries of one term that are highlighted.
HighlightTexts == UNION {[1..n -> {"O", "o", "c"}] : n \in 1..MaxText}

HighlightQueries == {<<"o">>, <<"O">>, <<"o", "c">>, <<"c", "o">>}

\* _highlight_text(text, query)
Highlight(text, query) ==
    /\ highlighting' = [text |-> text, query |-> query,
                        highlighted |-> HighlightTerms(text, Terms(query))]
    /\ UNCHANGED <<indexVars, autoVars, searchVars>>
    /\ UNCHANGED <<fetching, clicked, trackVars, searching>>

\* _to_search_result: relevance_score is not among the fields assigned and
\* keeps its default.
ToSearchResult(row, request) ==
    [id |-> row.id, document_id |-> row.document_id, title |-> row.title,
     highlighted_title |->
        IF request.highlight THEN HighlightText(row.title, Terms(request.query))
        ELSE NULL,
     highlighted_content |->
        IF request.highlight THEN HighlightText(row.content, Terms(request.query))
        ELSE NULL,
     relevance_score |-> NULL]

\* ValidSearchRequest without le=100 of page_size.
ValidSearchRequestAnySize(request) ==
    /\ Len(request.query) >= 1
    /\ request.page >= 1
    /\ request.page_size >= 1

\* The fields of SearchRequest with a constraint in the schema: a request
\* that breaks one is answered 422 before the handler is called.
ValidSearchRequest(request) ==
    /\ Len(request.query) >= 1
    /\ request.page >= 1
    /\ request.page_size >= 1
    /\ request.page_size <= 100

\* str.isalnum of the text without its blanks.
IsAlnum(text) ==
    LET letters == SelectSeq(text, LAMBDA c : c # " ")
    IN /\ letters # <<>>
       /\ \A k \in 1..Len(letters) :
             letters[k] \in {"a", "c", "e", "n", "o", "t"}

\* UpdateSuggestion with no condition on the text.
UpdateSuggestionAlways(rows, query_text, language, now) ==
    Tracked(rows, query_text, language, now)

\* _update_suggestion: queries of three characters or more, made of
\* letters, digits and blanks, are tracked as suggestions.
UpdateSuggestion(rows, query_text, language, now) ==
    IF Len(query_text) < 3 \/ ~IsAlnum(query_text) THEN rows
    ELSE Tracked(rows, query_text, language, now)

\* track_search: the row added to search_queries; uuid4() is the fresh id,
\* and clicked_result_id is not set.
SearchQuery(id, request, results_count) ==
    [id |-> id, query_text |-> request.query, language |-> request.language,
     results_count |-> results_count, clicked_result_id |-> NULL]

\* The search requests of the model: pages of a query, a query of blanks,
\* a request with a language filter, requests with other sort orders, and
\* requests the schema rejects.
SearchRequests ==
    {SearchRequest(Ocean, NULL, 1, 1, "relevance", "desc"),
     SearchRequest(Ocean, NULL, 2, 1, "relevance", "desc"),
     SearchRequest(Ocean, NULL, 1, 2, "relevance", "desc"),
     SearchRequest(Blank, NULL, 1, 2, "relevance", "desc"),
     SearchRequest(Content, NULL, 1, 2, "relevance", "desc")}
    \cup {SearchRequest(Ocean, "en", 1, 2, "relevance", "desc"),
          SearchRequest(Ocean, NULL, 1, 2, "title", "asc"),
          SearchRequest(Ocean, NULL, 1, 2, "date", "desc"),
          SearchRequest(Ocean, NULL, 1, 2, NULL, "asc")}
    \cup {SearchRequest(<<>>, NULL, 1, 2, "relevance", "desc"),
          SearchRequest(Ocean, NULL, 0, 2, "relevance", "desc"),
          SearchRequest(Ocean, NULL, 1, 0, "relevance", "desc"),
          SearchRequest(Ocean, NULL, 1, 101, "relevance", "desc")}

TotalPagesFloor(total_count, page_size) ==
    total_count \div page_size

\* total_pages = (total_count + page_size - 1) // page_size
TotalPages(total_count, page_size) ==
    (total_count + page_size - 1) \div page_size

\* The lists of results search may build for a request: the page asked
\* for of the matches in one of the orders the ORDER BY allows, each row
\* converted.
SearchResults(rows, request) ==
    LET matches == SearchMatches(rows, request)
    IN {[k \in 1..Len(Page(sorted, request.page, request.page_size)) |->
            ToSearchResult(Page(sorted, request.page, request.page_size)[k], request)] :
           sorted \in Ordered(matches, SortedFirst(matches, request))}

\* The requests with date bounds: a bound that does not parse alone, next
\* to a bound that keeps the matches, and next to one that excludes them.
DatedRequests ==
    {Dated(SearchRequest(q, NULL, 1, 2, "relevance", "desc"), from, to) :
        q \in {Ocean, Content},
        from \in {NULL, "not-a-date", "2024-01-01", "2025-06-30"},
        to \in {NULL, "not-a-date", "2024-01-01"}}

\* POST /search: search, with track_search and _update_suggestion.
Search(request) ==
    /\ IF ~ValidSearchRequest(request)
       THEN /\ searched' = Searched("search", 422, request, <<>>, 0, 0, {}, <<>>)
            /\ UNCHANGED <<queryLog, suggestions, clock>>
       ELSE /\ Len(queryLog) < MaxSearches
            /\ LET matches == SearchMatches(store, request)
                   total_count == Cardinality(matches)
                   language == IF request.language = NULL THEN "en"
                               ELSE request.language
               IN /\ \E results \in SearchResults(store, request) :
                           searched' =
                             Searched("search", 200, request, results,
                                      total_count,
                                      TotalPages(total_count, request.page_size),
                                      {}, <<"count", "select">>)
                  /\ queryLog' = Append(queryLog,
                                      SearchQuery(Len(queryLog) + 1, request, total_count))
                  /\ suggestions' =
                        UpdateSuggestion(suggestions, request.query, language, clock + 1)
                  /\ clock' = IF suggestions' = suggestions THEN clock ELSE clock + 1
    /\ UNCHANGED suggested
    /\ UNCHANGED <<indexVars, extVars>>

\* The ids track_click is called with: those of the rows search_queries
\* can hold, and one more.
QueryIds == 1..(MaxSearches + 1)

\* The ids of results a click is reported for.
ResultIds == {"result-1", "result-2"}

\* TrackClicked setting the column of every row.
TrackClickedAll(rows, query_id, clicked_result_id) ==
    [k \in 1..Len(rows) |->
        [rows[k] EXCEPT !.clicked_result_id = clicked_result_id]]

\* search_queries after track_click: the row with the id carries the
\* clicked result.
TrackClicked(rows, query_id, clicked_result_id) ==
    [k \in 1..Len(rows) |->
        IF rows[k].id = query_id
        THEN [rows[k] EXCEPT !.clicked_result_id = clicked_result_id]
        ELSE rows[k]]

\* track_click: the row is looked up by its id; when there is one its
\* clicked_result_id is set and committed.
TrackClick(query_id, clicked_result_id) ==
    /\ LET found == \E k \in 1..Len(queryLog) : queryLog[k].id = query_id
       IN /\ queryLog' = IF found
                         THEN TrackClicked(queryLog, query_id, clicked_result_id)
                         ELSE queryLog
          /\ clicked' = Clicked("track_click", query_id, clicked_result_id, found)
    /\ UNCHANGED <<indexVars, autoVars, searched, fetching, trackVars, searching, highlighting>>

\* search, step by step.  The request is validated and the query and its
\* filters are compiled.
SearchCompile(request) ==
    /\ searching.pc = "idle"
    /\ IF ~ValidSearchRequest(request)
       THEN /\ searched' = Searched("search", 422, request, <<>>, 0, 0, {}, <<>>)
            /\ UNCHANGED searching
       ELSE /\ Len(queryLog) < MaxSearches
            /\ searching' = Searching("compiled", request, <<>>, 0, Len(queryLog))
            /\ UNCHANGED searched
    /\ UNCHANGED <<queryLog, indexVars, autoVars>>
    /\ UNCHANGED <<fetching, clicked, trackVars, highlighting>>

\* The count statement and the select of the page are executed, and the
\* rows are converted to results.
SearchExecute ==
    /\ searching.pc = "compiled"
    /\ \E results \in SearchResults(store, searching.request) :
          searching' = [searching EXCEPT
             !.pc = "queried",
             !.results = results,
             !.total_count = Cardinality(SearchMatches(store, searching.request))]
    /\ UNCHANGED <<searchVars, indexVars, autoVars>>
    /\ UNCHANGED <<fetching, clicked, trackVars, highlighting>>

\* track_search adds the row of the search and commits.
SearchTrack ==
    /\ searching.pc = "queried"
    /\ queryLog' = Append(queryLog,
                          SearchQuery(Len(queryLog) + 1, searching.request,
                                      searching.total_count))
    /\ searching' = [searching EXCEPT !.pc = "tracked"]
    /\ UNCHANGED <<searched, indexVars, autoVars>>
    /\ UNCHANGED <<fetching, clicked, trackVars, highlighting>>

\* track_search goes on to _update_suggestion.
SearchSuggest ==
    /\ searching.pc = "tracked"
    /\ LET language == IF searching.request.language = NULL THEN "en"
                       ELSE searching.request.language
       IN suggestions' = UpdateSuggestion(suggestions, searching.request.query,
                                          language, clock + 1)
    /\ clock' = IF suggestions' = suggestions THEN clock ELSE clock + 1
    /\ searching' = [searching EXCEPT !.pc = "suggested"]
    /\ UNCHANGED <<suggested, searchVars, indexVars>>
    /\ UNCHANGED <<fetching, clicked, trackVars, highlighting>>

\* total_pages is computed and the SearchResponse is returned.
SearchRespond ==
    /\ searching.pc = "suggested"
    /\ searched' = Searched("search", 200, searching.request, searching.results,
                            searching.total_count,
                            TotalPages(searching.total_count,
                                       searching.request.page_size),
                            {}, <<"count", "select">>)
    /\ searching' = NoSearching
    /\ UNCHANGED <<queryLog, indexVars, autoVars>>
    /\ UNCHANGED <<fetching, clicked, trackVars, highlighting>>

\* The requests of the searches taken step by step: a page shorter than
\* the matches, a query of blanks, a query of two letters, and a request
\* the schema rejects.
SteppedRequests ==
    {SearchRequest(Ocean, NULL, 1, 1, "relevance", "desc"),
     SearchRequest(Content, "es", 1, 2, "relevance", "desc"),
     SearchRequest(Blank, NULL, 1, 2, "relevance", "desc"),
     SearchRequest(<<"e", "n">>, NULL, 1, 2, "relevance", "desc"),
     SearchRequest(Ocean, NULL, 1, 0, "relevance", "desc")}

\* ---------------------------------------------------------- facets (code)
\* FacetRequest: filters is the dict of the request, NULL for a key that
\* is not in it.
FacetRequest(query, language, facet_fields) ==
    [query |-> query,
     filters |-> [document_type |-> NULL, language |-> language, status |-> NULL],
     facet_fields |-> facet_fields]

FacetRequests ==
    {FacetRequest(Ocean, NULL, <<"document_type", "language", "author_name", "status">>),
     FacetRequest(Ocean, "en", <<"document_type">>),
     FacetRequest(Content, NULL, <<"author_name", "status">>),
     FacetRequest(Blank, NULL, <<"language">>)}

\* FacetService._prepare_search_query
FacetPrepareSearchQuery(query) ==
    IF Terms(query) = <<>>
    THEN <<[word |-> <<"*">>, prefix |-> FALSE]>>
    ELSE [k \in 1..Len(Terms(query)) |->
             [word |-> Terms(query)[k], prefix |-> TRUE]]

\* FacetService._apply_filters
ApplyFacetFilters(rows, filters) ==
    {x \in rows :
        /\ filters.document_type # NULL => x.document_type = filters.document_type
        /\ filters.language # NULL => x.language = filters.language
        /\ filters.status # NULL => x.status = filters.status}

\* base_query: the rows the facet request matches.
FacetMatches(rows, request) ==
    ApplyFacetFilters(
        {x \in rows : Matches(x, ToTsquery(FacetPrepareSearchQuery(request.query)))},
        request.filters)

\* The statement of one facet: SELECT search_indexes.field,
\* count(search_indexes.id) FROM (base_query) AS anon_1, search_indexes
\* GROUP BY search_indexes.field.  The columns are those of the table and
\* not of the subquery, so the table is a second FROM element, joined to
\* the subquery by nothing: every row of the table is counted once for
\* every row of the subquery.  The author and the status statement keep
\* the table rows whose field is not null.
FacetGroups(rows, base, field) ==
    LET kept == IF field \in {"author_name", "status"}
                THEN {x \in rows : x[field] # NULL}
                ELSE rows
    IN IF base = {} THEN {}
       ELSE {[value |-> v,
              count |-> Cardinality({x \in kept : x[field] = v})
                           * Cardinality(base)] :
                v \in {x[field] : x \in kept}}

\* sorted(facets, key=count, reverse=True), and the first 20 authors.
FacetOptions(rows, base, field) ==
    LET groups == FacetGroups(rows, base, field)
        first == {pair \in groups \X groups : pair[1].count > pair[2].count}
    IN {IF field = "author_name" THEN Limit(s, 20) ELSE s :
           s \in Ordered(groups, first)}

\* The possible dicts of facets: for each of the first k requested fields
\* one of the possible lists of options.
RECURSIVE Facets(_, _, _, _)
Facets(rows, base, fields, k) ==
    IF k = 0 THEN {{}}
    ELSE {prior \cup {[field |-> fields[k], options |-> options]} :
             prior \in Facets(rows, base, fields, k - 1),
             options \in FacetOptions(rows, base, fields[k])}

\* POST /facets
GetFacets(request) ==
    /\ LET base == FacetMatches(store, request)
       IN \E facets \in Facets(store, base, request.facet_fields,
                                 Len(request.facet_fields)) :
             searched' = Searched("get_facets", 200, request, <<>>,
                                  Cardinality(base), 0, facets,
                                  <<"count">> \o request.facet_fields)
    /\ UNCHANGED queryLog
    /\ UNCHANGED <<indexVars, autoVars, extVars>>

\* ------------------------------------------- service integration (code)
\* The services fetch_all_documents fetches from, in its order.
DocumentSources == <<"content", "partners", "projects", "social", "notifications">>

\* What a service answers: whether the request succeeds (connection and
\* raise_for_status), the number of items of data["items"], and the first
\* item that does not convert to an IndexDocumentRequest (its id is
\* missing or is no UUID), 0 when every item converts.
Answers ==
    {[status_ok |-> ok, items |-> n, bad |-> bad] :
        ok \in BOOLEAN, n \in 0..MaxItems, bad \in 0..MaxItems}

\* The document made of item k of a source.
Document(source, k) == [source |-> source, item |-> k]

\* A fetch with no try/except: what is raised leaves the method.
FetchNoExcept(source, answer) ==
    IF ~answer.status_ok \/ answer.bad \in 1..answer.items
    THEN [raised |-> TRUE, documents |-> <<>>]
    ELSE [raised |-> FALSE,
          documents |-> [k \in 1..answer.items |-> Document(source, k)]]

\* fetch_content_articles and the four methods like it: the documents of
\* the items, or [] when anything in the try block raises Exception.
Fetch(source, answer) ==
    IF ~answer.status_ok \/ answer.bad \in 1..answer.items
    THEN [raised |-> FALSE, documents |-> <<>>]
    ELSE [raised |-> FALSE,
          documents |-> [k \in 1..answer.items |-> Document(source, k)]]

\* What is kept of an answer: whether the fetch of the source succeeded,
\* and the number of documents it then has.
Fetched(answer) ==
    LET succeeded == answer.status_ok /\ ~(answer.bad \in 1..answer.items)
    IN [succeeded |-> succeeded,
        items |-> IF succeeded THEN answer.items ELSE 0]

\* fetch_all_documents is called.
FetchAllStart ==
    /\ fetching.pc = "idle"
    /\ fetching' = Fetching("fetching", 1, <<>>, <<>>)
    /\ UNCHANGED <<indexVars, autoVars, searchVars, clicked, trackVars, searching, highlighting>>

\* all_documents.extend(await self.fetch_...()) for the next source.
FetchAllExtend(answer) ==
    /\ fetching.pc = "fetching"
    /\ fetching.i <= Len(DocumentSources)
    /\ LET res == Fetch(DocumentSources[fetching.i], answer)
       IN fetching' =
             IF res.raised
             THEN Fetching("raised", fetching.i, fetching.all_documents,
                           Append(fetching.answers, Fetched(answer)))
             ELSE Fetching("fetching", fetching.i + 1,
                           fetching.all_documents \o res.documents,
                           Append(fetching.answers, Fetched(answer)))
    /\ UNCHANGED <<indexVars, autoVars, searchVars, clicked, trackVars, searching, highlighting>>

\* return all_documents
FetchAllReturn ==
    /\ fetching.pc = "fetching"
    /\ fetching.i > Len(DocumentSources)
    /\ fetching' = [fetching EXCEPT !.pc = "returned"]
    /\ UNCHANGED <<indexVars, autoVars, searchVars, clicked, trackVars, searching, highlighting>>

\* ------------------------------------------------------- specifications
\* One call of fetch_all_documents against services that answer in any
\* way.
FetchNext ==
    \/ FetchAllStart
    \/ \E answer \in Answers : FetchAllExtend(answer)
    \/ FetchAllReturn

FetchSpec == Init /\ [][FetchNext]_vars

Step(p) ==
    \/ \E r \in Requests, f \in LookupFails : IndexDocumentStart(p, r, f)
    \/ \E f \in CommitFails : IndexDocumentCommit(p, f)
    \/ \E n \in 0..MaxBatch, f \in CommitFails : BulkIndexStart(p, n, f)
    \/ \E doc \in Requests, f \in LookupFails : BulkLookup(p, doc, f)
    \/ \E f \in CommitFails : BulkCommit(p, f)
    \/ \E f \in CommitFails : BulkFinish(p, f)
    \/ \E d \in DocIds, r \in Requests, f \in LookupFails : UpdateIndexStart(p, d, r, f)
    \/ \E f \in CommitFails : UpdateIndexCommit(p, f)
    \/ \E d \in DocIds, f \in CommitFails : DeleteFromIndex(p, d, f)
    \/ \E f \in CommitFails : ReindexAll(p, f)
    \/ \E f \in CommitFails : ClearIndex(p, f)

\* The service: requests of every kind, handled concurrently.
Next == (\E p \in Workers : Step(p)) /\ UNCHANGED <<autoVars, searchVars, extVars>>

Spec == Init /\ [][Next]_vars

\* The same requests handled one at a time: a request is taken only when
\* no other is in hand.
SeqNext ==
    \E p \in Workers :
        /\ \A q \in Workers \ {p} : proc[q].pc = "idle"
        /\ Step(p)
        /\ UNCHANGED <<autoVars, searchVars, extVars>>

SeqSpec == Init /\ [][SeqNext]_vars

\* The writers of index_jobs (bulk_index, reindex_all) running concurrently
\* with readers of the job list.
JobStep(p) ==
    \/ \E n \in 0..MaxBatch, f \in CommitFails : BulkIndexStart(p, n, f)
    \/ \E doc \in Requests, f \in LookupFails : BulkLookup(p, doc, f)
    \/ \E f \in CommitFails : BulkCommit(p, f)
    \/ \E f \in CommitFails : BulkFinish(p, f)
    \/ \E f \in CommitFails : ReindexAll(p, f)

ReadNext ==
    /\ \/ \E p \in Workers : JobStep(p)
       \/ \E st \in JobStatuses \cup {NULL}, limit \in {1, 50} : ListIndexJobs(st, limit)
    /\ UNCHANGED <<autoVars, searchVars, extVars>>

ReadSpec == Init /\ [][ReadNext]_vars

\* The autocomplete service, its requests handled one at a time.
AutoNext ==
    /\ \/ \E q \in Queries, l \in Languages \cup {NULL}, n \in Limits :
             GetSuggestions(q, l, n)
       \/ \E t \in Texts, l \in Languages : TrackSuggestion(t, l)
       \/ \E m \in MinUsages : CleanupSuggestions(m)
    /\ UNCHANGED searchVars

AutoSpec == Init /\ [][AutoNext]_vars

\* The limits of the autocomplete requests: one in range, and the two next
\* to the range.
AutocompleteLimits == {0, 1, 51}

\* The search and the facet service over an index that is written by one
\* request at a time, every store call succeeding.
SearchNext ==
    \/ /\ \/ \E r \in Requests : IndexDocumentStart(1, r, "none")
          \/ IndexDocumentCommit(1, "none")
       /\ UNCHANGED <<autoVars, searchVars, extVars>>
    \/ \E request \in SearchRequests : Search(request)
    \/ \E request \in FacetRequests : GetFacets(request)
    \/ /\ \E limit \in AutocompleteLimits :
             GetAutocomplete(<<"o", "c", "e">>, NULL, limit)
       /\ UNCHANGED searchVars

SearchSpec == Init /\ [][SearchNext]_vars

\* Searches with date bounds over an index that is written by one request
\* at a time.
DateNext ==
    \/ /\ \/ \E r \in Requests : IndexDocumentStart(1, r, "none")
          \/ IndexDocumentCommit(1, "none")
       /\ UNCHANGED <<autoVars, searchVars, extVars>>
    \/ \E request \in DatedRequests : Search(request)

DateSpec == Init /\ [][DateNext]_vars

\* Searches and clicks on their results, over an index that is written by
\* one request at a time.
ClickNext ==
    \/ /\ \/ \E r \in Requests : IndexDocumentStart(1, r, "none")
          \/ IndexDocumentCommit(1, "none")
       /\ UNCHANGED <<autoVars, searchVars, extVars>>
    \/ \E q \in {Ocean, Blank} :
          Search(SearchRequest(q, NULL, 1, 2, "relevance", "desc"))
    \/ \E query_id \in QueryIds, clicked_result_id \in ResultIds :
          TrackClick(query_id, clicked_result_id)

ClickSpec == Init /\ [][ClickNext]_vars

\* _highlight_text applied to texts and queries of one term.
HighlightNext ==
    \E text \in HighlightTexts, query \in HighlightQueries : Highlight(text, query)

HighlightSpec == Init /\ [][HighlightNext]_vars

\* Searches taken step by step, one at a time, while the index is written
\* by one request at a time.
StepsNext ==
    \/ /\ \/ \E r \in Requests : IndexDocumentStart(1, r, "none")
          \/ IndexDocumentCommit(1, "none")
       /\ UNCHANGED <<autoVars, searchVars, extVars>>
    \/ \E request \in SteppedRequests : SearchCompile(request)
    \/ SearchExecute
    \/ SearchTrack
    \/ SearchSuggest
    \/ SearchRespond

StepsSpec == Init /\ [][StepsNext]_vars

\* Calls of track_suggestion handled concurrently, each a select and a
\* commit.
TrackNext ==
    \E p \in Workers :
        \/ \E text \in Texts : TrackSelect(p, text, "en")
        \/ TrackCommit(p)

TrackSpec == Init /\ [][TrackNext]_vars

\* Every request that was accepted is carried on: each handler step is an
\* await that the event loop resumes once the store call returns or raises.
\* Nothing obliges a new request to arrive.
Progress(p) ==
    /\ proc[p].pc # "idle"
    /\ Step(p)
    /\ UNCHANGED <<autoVars, searchVars, extVars>>

FairSpec == Spec /\ \A p \in Workers : WF_vars(Progress(p))

\* ---------------------------------------------------------- properties
BulkWorker(p) == proc[p].op = "bulk_index"

\* Worker p takes the last step of bulk_index and the service returns.
BulkReturns(p) ==
    /\ BulkWorker(p)
    /\ proc[p].pc = "finish"
    /\ proc'[p].pc = "idle"
    /\ response'.result = "ok"

\* C1: when bulk_index returns for a batch of N documents of which K
\* index_document calls raised, the job it returns has
\* documents_processed = N - K, documents_failed = K, and is completed
\* when K = 0 and failed otherwise.
C1_BulkCounts ==
    [][\A p \in Workers :
          BulkReturns(p) =>
             LET job == jobs'[response'.value]
                 N == proc[p].n
                 K == proc[p].raised
             IN /\ proc[p].returned + proc[p].raised = N
                /\ job.documents_processed = N - K
                /\ job.documents_failed = K
                /\ job.status = IF K = 0 THEN "completed" ELSE "failed"]_vars

\* A batch of two with one failure was answered with its job.
C1_Witness ==
    /\ response.op = "bulk_index"
    /\ response.result = "ok"
    /\ LET job == jobs[response.value]
       IN /\ submitted[response.value] = 2
          /\ job.documents_processed = 1
          /\ job.documents_failed = 1
          /\ job.status = "failed"

\* C2: a raise of index_document inside bulk_index does not end the
\* batch and is not passed on: after it the loop stands at the next
\* document (or at the final commit after the last one) and nothing is
\* answered; when the handler ends every document was attempted and every
\* document whose index_document call returned is in the store; and when
\* the final commit goes through the answer is the job handle.
C2_FailureIsolated ==
    [][\A p \in Workers :
          /\ (BulkWorker(p) /\ proc'[p].raised > proc[p].raised) =>
                /\ BulkWorker(p)'
                /\ proc'[p].job = proc[p].job
                /\ proc'[p].i = proc[p].i + 1
                /\ proc'[p].pc = IF proc[p].i < proc[p].n THEN "lookup" ELSE "finish"
                /\ response' = response
          /\ (BulkWorker(p) /\ proc[p].pc = "finish" /\ proc'[p].pc = "idle") =>
                /\ proc[p].returned + proc[p].raised = proc[p].n
                /\ \A d \in proc[p].indexed : RowsIn(store', d) # {}
                /\ jobs' # jobs =>
                      response' = Response("bulk_index", "ok", proc[p].job)]_vars

\* A batch of two in which one index_document call raised and the other
\* returned was answered with its job, and the store holds a document.
C2_Witness ==
    /\ response.op = "bulk_index"
    /\ response.result = "ok"
    /\ jobs[response.value].documents_failed = 1
    /\ jobs[response.value].documents_processed = 1
    /\ store # {}
    /\ \A p \in Workers : proc[p].pc = "idle"

\* C3: the store holds at most one row per document_id.
C3_OneRowPerDocument ==
    \A d \in DocIds : Cardinality(RowsOf(d)) <= 1

\* Worker p commits an index_document call that found the document
\* indexed, and the call returns.
Reindexes(p) ==
    /\ proc[p].op = "index_document"
    /\ proc[p].pc = "commit"
    /\ proc[p].existing # NoRow
    /\ proc'[p].pc = "idle"
    /\ response'.result = "ok"

\* C4: requests handled one after the other; an index_document call for a
\* document_id that an earlier call indexed leaves exactly one row for it,
\* and the row's title, content, language, metadata, author id and name,
\* status and published time are those of this request.
C4_SecondIndexWins ==
    [][\A p \in Workers :
          Reindexes(p) =>
             LET r == proc[p].request
                 rows == RowsIn(store', r.document_id)
             IN /\ Cardinality(rows) = 1
                /\ \A x \in rows :
                      /\ x.id = response'.value
                      /\ x.title = r.title
                      /\ x.content = r.content
                      /\ x.language = r.language
                      /\ x.metadata = r.metadata
                      /\ x.author_id = r.author_id
                      /\ x.author_name = r.author_name
                      /\ x.status = r.status
                      /\ x.published_at = ParsePublishedAt(r.published_at)]_vars

\* Document 1 was indexed as an article and indexed again with the other
\* title and content: one row, created by the first call (its
\* document_type), bearing the second call's content.
C4_Witness ==
    /\ response.op = "index_document"
    /\ response.result = "ok"
    /\ \E x \in store :
          /\ RowsOf(1) = {x}
          /\ x.id = response.value
          /\ x.document_type = "article"
          /\ x.title = "Updated Title"
          /\ x.content = "Updated content"
          /\ x.published_at = NoDate

Terminal == {"completed", "failed"}

\* C5: no job is deleted; a job's status changes only along
\* pending -> running, running -> completed, running -> failed; a
\* completed or failed job never changes again.
C5_JobTransitions ==
    [][/\ Len(jobs') >= Len(jobs)
       /\ \A j \in 1..Len(jobs) :
             /\ jobs'[j].status # jobs[j].status =>
                   <<jobs[j].status, jobs'[j].status>> \in
                      {<<"pending", "running">>, <<"running", "completed">>,
                       <<"running", "failed">>}
             /\ jobs[j].status \in Terminal => jobs'[j] = jobs[j]]_vars

\* A job has ended and the service is handling a later request.
C5_Witness ==
    /\ \E j \in 1..Len(jobs) : jobs[j].status \in Terminal
    /\ \E p \in Workers : proc[p].pc # "idle"

\* C6: a bulk job is running only while its bulk_index call is: once the
\* call has ended, by returning or by raising, the job is completed or
\* failed.
C6_BulkJobEnds ==
    \A j \in 1..Len(jobs) :
        (jobs[j].job_type = "bulk" /\ jobs[j].status = "running") =>
            \E p \in Workers : BulkWorker(p) /\ proc[p].job = j

\* C7: a job that is pending is eventually running.
C7_PendingJobStarts ==
    \A j \in 1..MaxOps :
        (Len(jobs) >= j /\ jobs[j].status = "pending")
            ~> (Len(jobs) >= j /\ jobs[j].status = "running")

\* C8: the timestamps and the failure counter of every job agree with its
\* status.
C8_JobShape ==
    \A j \in 1..Len(jobs) :
        LET job == jobs[j]
        IN /\ job.status = "pending" =>
                 job.started_at = NULL /\ job.completed_at = NULL
           /\ job.status = "running" =>
                 job.started_at # NULL /\ job.completed_at = NULL
           /\ job.status \in Terminal =>
                 job.started_at # NULL /\ job.completed_at # NULL
           /\ job.status = "failed" => job.documents_failed > 0
           /\ job.status = "completed" => job.documents_failed = 0

\* The job table holds a failed job, a completed job or a pending one
\* next to a job of another status.
C8_Witness ==
    /\ Len(jobs) = 2
    /\ jobs[1].status = "failed"
    /\ jobs[1].documents_failed = 2
    /\ jobs[2].status \in {"pending", "completed"}

\* C9: a reader never sees the counters of a bulk job add up to more
\* than the documents of its batch, and of two successive reads the later
\* never shows a smaller documents_processed or documents_failed for a job
\* than the earlier.
C9_CountersMonotone ==
    /\ [](\A k \in 1..Len(seen) :
             seen[k].job_type = "bulk" =>
                seen[k].documents_processed + seen[k].documents_failed
                   <= submitted[seen[k].id])
    /\ [][\A k \in 1..Len(seen), m \in 1..Len(seen') :
             seen[k].id = seen'[m].id =>
                /\ seen'[m].documents_processed >= seen[k].documents_processed
                /\ seen'[m].documents_failed >= seen[k].documents_failed]_vars

\* A reader's answer taken in the middle of a run: the job is shown running
\* with both counters 0 while its loop has already counted a document.
C9_Witness ==
    \E k \in 1..Len(seen), p \in Workers :
        /\ BulkWorker(p)
        /\ proc[p].job = seen[k].id
        /\ seen[k].status = "running"
        /\ seen[k].documents_processed + seen[k].documents_failed = 0
        /\ proc[p].processed + proc[p].failed >= 1

\* C10: an answer of get_suggestions to a query of two characters or more
\* that is shorter than limit leaves no prefix match unused: every row
\* whose text starts with the query (in the language asked for) is in the
\* answer.
C10_PaddedToLimit ==
    [][(suggested' # suggested /\ Len(suggested'.query) >= 2) =>
          LET answer == suggested'.suggestions
              unused == {x \in PrefixRows(suggested'.query, suggested'.language) :
                            \A k \in 1..Len(answer) : answer[k] # x.suggestion_text}
          IN Len(answer) < suggested'.limit => unused = {}]_vars

\* C11: to a query of fewer than two characters get_suggestions executes
\* the popular statement only, and answers with the texts of the rows of
\* the language asked for, most used first and among equally used ones the
\* last used first, cut to limit.
C11_ShortQueryPopular ==
    [][(/\ suggested' # suggested
        /\ suggested'.op = "get_suggestions"
        /\ Len(suggested'.query) < 2) =>
          LET answer == suggested'.suggestions
              rows == IF suggested'.language = NULL THEN suggestions
                      ELSE {x \in suggestions : x.language = suggested'.language}
              NotAfter(x, y) ==
                  \/ x.usage_count > y.usage_count
                  \/ /\ x.usage_count = y.usage_count
                     /\ x.last_used_at >= y.last_used_at
              Answered(x) == \E k \in 1..Len(answer) : answer[k] = x.suggestion_text
          IN /\ suggested'.statements = <<"popular">>
             /\ Len(answer) = IF Cardinality(rows) < suggested'.limit
                              THEN Cardinality(rows) ELSE suggested'.limit
             /\ \A k \in 1..Len(answer) :
                   \E x \in rows : x.suggestion_text = answer[k]
             /\ \A k, m \in 1..Len(answer) :
                   k < m =>
                      \A x, y \in rows :
                         (x.suggestion_text = answer[k] /\ y.suggestion_text = answer[m])
                            => x # y /\ NotAfter(x, y)
             /\ \A x, y \in rows :
                   (Answered(x) /\ ~Answered(y)) => NotAfter(x, y)]_vars

\* Three texts were tracked once each, and the answer to a one-character
\* query with limit 2 is the two tracked last, the last one first.
C11_Witness ==
    /\ suggested.op = "get_suggestions"
    /\ suggested.query = <<"o">>
    /\ suggested.limit = 2
    /\ suggested.suggestions = <<Ocelot, Oceanside>>
    /\ Cardinality(suggestions) = 3

\* C12: an answer of get_suggestions holds no text twice and at most limit
\* texts.
C12_NoDuplicatesWithinLimit ==
    suggested.op = "get_suggestions" =>
        LET answer == suggested.suggestions
        IN /\ Len(answer) <= suggested.limit
           /\ \A k, m \in 1..Len(answer) : k # m => answer[k] # answer[m]

\* An answer for which the prefix statement ran with room for two rows and
\* returned a text the similarity statement had found already.
C12_Witness ==
    /\ suggested.op = "get_suggestions"
    /\ suggested.statements = <<"similarity", "prefix">>
    /\ suggested.limit = 3
    /\ suggested.suggestions = <<Ocean, Oceanside>>
    /\ \E x \in suggestions : x.suggestion_text = Oceanside /\ x.usage_count = 2

\* C13: a track_suggestion call leaves exactly one row for its text, with
\* usage_count 1 when the text had no row and one more than before when it
\* had one, and leaves the rows of the other texts as they were.
C13_TrackCounts ==
    [][clock' # clock =>
          \E t \in Texts :
             LET old == {x \in suggestions : x.suggestion_text = t}
                 new == {x \in suggestions' : x.suggestion_text = t}
             IN /\ Cardinality(new) = 1
                /\ old = {} => \A y \in new : y.usage_count = 1
                /\ \A x \in old, y \in new : y.usage_count = x.usage_count + 1
                /\ suggestions' \ new = suggestions \ old]_vars

\* A text tracked three times in a row from an empty table: one row,
\* usage_count 3.
C13_Witness ==
    /\ clock = 3
    /\ Cardinality(suggestions) = 1
    /\ \A x \in suggestions : x.usage_count = 3

\* C14: cleanup_suggestions(m) deletes the rows with usage_count below m
\* and no other, changes no row, and returns the number of rows deleted.
C14_CleanupRemovesUnused ==
    [][(clock' = clock /\ suggested'.op = "cleanup_suggestions") =>
          LET m == suggested'.min_usage
          IN /\ suggestions' = {x \in suggestions : x.usage_count >= m}
             /\ suggested'.rowcount =
                   Cardinality({x \in suggestions : x.usage_count < m})]_vars

\* cleanup_suggestions(2) has just deleted one row and kept the row used
\* twice.
C14_Witness ==
    /\ suggested.op = "cleanup_suggestions"
    /\ suggested.min_usage = 2
    /\ suggested.rowcount = 1
    /\ clock = 3
    /\ Cardinality(suggestions) = 1
    /\ \A x \in suggestions : x.usage_count = 2

\* The sum of the counts of a list of facet options.
RECURSIVE CountSum(_)
CountSum(options) ==
    IF options = <<>> THEN 0
    ELSE Head(options).count + CountSum(Tail(options))

\* C15: in an answer of get_facets the counts of the options of a field
\* sum to total_results, for every requested field that is null in no
\* matched document.
C15_FacetCountsSum ==
    [][\A request \in FacetRequests :
          GetFacets(request) =>
             \A facet \in searched'.facets :
                (\A x \in FacetMatches(store, request) : x[facet.field] # NULL) =>
                   CountSum(facet.options) = searched'.total_count]_vars

\* The search request with the query and the filters of a facet request.
SearchOf(request) ==
    SearchRequest(request.query, request.filters.language, 1, 20, "relevance", "desc")

\* C16: get_facets counts and groups the documents search matches for the
\* same query and filters: total_results is the number of those documents,
\* and the options of every field are the values of those documents, each
\* with the number of those documents that have it.
C16_FacetsOverMatches ==
    [][\A request \in FacetRequests :
          GetFacets(request) =>
             LET matched == SearchMatches(store, SearchOf(request))
             IN /\ searched'.total_count = Cardinality(matched)
                /\ \A facet \in searched'.facets :
                      /\ \A k \in 1..Len(facet.options) :
                            facet.options[k].count =
                               Cardinality({x \in matched :
                                               x[facet.field] = facet.options[k].value})
                      /\ \A x \in matched :
                            x[facet.field] # NULL =>
                               \E k \in 1..Len(facet.options) :
                                  facet.options[k].value = x[facet.field]]_vars

\* C17: every answer to a search request that is accepted has total_pages
\* = ceil(total_count / page_size), the least number of pages of page_size
\* that hold total_count results, and carries the results of the page asked
\* for: page_size of them, or what is left of total_count after the pages
\* before it, which is none on a page after the last (0 <= len(results) <=
\* page_size).
C17_Pagination ==
    (searched.op = "search" /\ searched.status = 200) =>
        LET page_size == searched.request.page_size
            before == (searched.request.page - 1) * page_size
            left == IF searched.total_count > before
                    THEN searched.total_count - before ELSE 0
        IN /\ ValidSearchRequest(searched.request)
           /\ searched.total_pages * page_size >= searched.total_count
           /\ (searched.total_pages - 1) * page_size < searched.total_count
           /\ Len(searched.results) = IF left < page_size THEN left ELSE page_size
           /\ 0 <= Len(searched.results)
           /\ Len(searched.results) <= page_size

\* Page 2 of pages of one result, of a search that matches one document:
\* one page in all, and no result on the second.
C17_Witness ==
    /\ searched.op = "search"
    /\ searched.status = 200
    /\ searched.request.page = 2
    /\ searched.request.page_size = 1
    /\ searched.total_count = 1
    /\ searched.total_pages = 1
    /\ Len(searched.results) = 0

\* C17 as stated: total_pages = ceil(total_count / page_size) and
\* 0 < len(results) <= page_size for every answer to a valid request.
C17_ResultsNonEmpty ==
    (searched.op = "search" /\ searched.status = 200) =>
        /\ searched.total_pages * searched.request.page_size >= searched.total_count
        /\ (searched.total_pages - 1) * searched.request.page_size
              < searched.total_count
        /\ 0 < Len(searched.results)
        /\ Len(searched.results) <= searched.request.page_size

\* C18: a search request whose query holds no term (it is empty, or blanks
\* only) and whose page and page_size are in range is answered 200 with
\* every document that passes the filters of the request counted in
\* total_count.
C18_EmptyQueryMatchesAll ==
    [][\A request \in SearchRequests :
          (/\ Terms(request.query) = <<>>
           /\ request.page >= 1
           /\ request.page_size \in 1..100
           /\ Search(request)) =>
             /\ searched'.status = 200
             /\ searched'.total_count =
                   Cardinality(ApplySearchFilters(store, request))]_vars

\* C19: a search request whose page is below 1 or whose page_size is not
\* in 1..100, and an autocomplete request whose limit is not in 1..50, is
\* answered as rejected with no statement executed: the index, the log of
\* search queries and the suggestions are as they were.
C19_RejectedBeforeStore ==
    [][/\ \A request \in SearchRequests :
             (/\ request.page < 1 \/ request.page_size \notin 1..100
              /\ Search(request)) =>
                /\ searched'.status = 422
                /\ searched'.statements = <<>>
                /\ searched'.results = <<>>
                /\ UNCHANGED <<store, queryLog, suggestions, clock>>
       /\ \A limit \in AutocompleteLimits :
             (/\ limit \notin 1..50
              /\ GetAutocomplete(<<"o", "c", "e">>, NULL, limit)
              /\ UNCHANGED searchVars) =>
                /\ suggested'.op = "rejected"
                /\ suggested'.statements = <<>>
                /\ suggested'.suggestions = <<>>
                /\ UNCHANGED <<store, queryLog, suggestions, clock>>]_vars

\* Over an index that holds a document and a suggestion that matches, a
\* search with page_size 101 and an autocomplete with limit 51 have been
\* rejected, after the one search that was logged.
C19_Witness ==
    /\ store # {}
    /\ \E x \in suggestions : x.suggestion_text = Ocean
    /\ Len(queryLog) = 1
    /\ searched.op = "search"
    /\ searched.status = 422
    /\ searched.request.page_size = 101
    /\ searched.statements = <<>>
    /\ suggested.op = "rejected"
    /\ suggested.limit = 51

\* C20: every result of a search sorted by relevance carries as
\* relevance_score the rank its row was ordered by, and the title of the
\* result is highlighted when the query is found in it; so a search for
\* "ocean" answers the article "Ocean Policy" with a relevance_score that
\* is not null and with the term marked in highlighted_title.
C20_RelevanceScoreIsRank ==
    [][\A request \in SearchRequests :
          (request.sort_by = "relevance" /\ Search(request)) =>
             \A k \in 1..Len(searched'.results) :
                LET result == searched'.results[k]
                IN /\ result.title = "Ocean Policy" /\ request.query = Ocean =>
                         result.highlighted_title = "<mark>ocean</mark> Policy"
                   /\ result.relevance_score # NULL
                   /\ \E x \in store :
                         /\ x.id = result.id
                         /\ result.relevance_score =
                               TsRank(x, ToTsquery(PrepareSearchQuery(request.query)))]_vars

\* A date bound of a request that is set and does not parse.
Unparseable(bound) == bound # NULL /\ ~IsIsoFormat(bound)

\* The request without its date bounds that do not parse.
Parseable(request) ==
    Dated(request,
          IF Unparseable(request.date_from) THEN NULL ELSE request.date_from,
          IF Unparseable(request.date_to) THEN NULL ELSE request.date_to)

\* C21: a search with a date_from or a date_to that does not parse is
\* answered 200, with the total_count and a list of results of the request
\* that leaves that bound out and keeps the other bound and every other
\* filter (titles, order and highlighting included).
C21_UnparseableDateDropped ==
    [][\A request \in DatedRequests :
          (/\ Unparseable(request.date_from) \/ Unparseable(request.date_to)
           /\ Search(request)) =>
             /\ searched'.status = 200
             /\ searched'.total_count =
                   Cardinality(SearchMatches(store, Parseable(request)))
             /\ searched'.results \in SearchResults(store, Parseable(request))]_vars

\* Over an index that holds the article published on 2024-01-01, a search
\* for "ocean" with date_from "not-a-date" and date_to 2024-01-01 has been
\* answered with the article.
C21_Witness ==
    /\ searched.op = "search"
    /\ searched.status = 200
    /\ searched.request.date_from = "not-a-date"
    /\ searched.request.date_to = "2024-01-01"
    /\ searched.total_count = 1
    /\ Len(searched.results) = 1
    /\ searched.results[1].title = "Ocean Policy"

\* C22: delete_from_index(d) that returns, returns true exactly when a row
\* with document_id d existed; after it no row has document_id d, the rows
\* of other documents are the rows they were, and the index jobs, the
\* suggestions and the logged search queries are unchanged.
C22_DeleteExactMatch ==
    [][\A p \in Workers, d \in DocIds :
          DeleteFromIndex(p, d, "none") =>
             /\ response'.op = "delete_from_index"
             /\ response'.result \in {"ok", "not_found"}
             /\ response'.result = "ok" <=> RowsOf(d) # {}
             /\ RowsIn(store', d) = {}
             /\ store' \ RowsIn(store', d) = store \ RowsOf(d)
             /\ UNCHANGED <<jobs, suggestions, queryLog>>]_vars

\* A document of a bulk of two has been deleted: the row of the other
\* document and the job of the bulk are left.
C22_Witness ==
    /\ response.op = "delete_from_index"
    /\ response.result = "ok"
    /\ Cardinality(store) = 1
    /\ Len(jobs) = 1
    /\ jobs[1].documents_processed = 2

\* C23: update_index on a document_id with no row returns None (the
\* handler answers without going on to a commit, and raises nothing), and
\* delete_from_index on a document_id with no row returns false; both
\* leave the rows of the index, and the next id, as they were.
C23_NotFoundIsNoOp ==
    [][\A p \in Workers, d \in DocIds :
          RowsOf(d) = {} =>
             /\ \A r \in Requests :
                   UpdateIndexStart(p, d, r, "none") =>
                      /\ response' = Response("update_index", "not_found", 0)
                      /\ proc'[p] = Idle
                      /\ UNCHANGED <<store, nextId>>
             /\ DeleteFromIndex(p, d, "none") =>
                   /\ response' = Response("delete_from_index", "not_found", 0)
                   /\ proc'[p] = Idle
                   /\ UNCHANGED <<store, nextId>>]_vars

\* update_index has answered not found over an index that holds another
\* document.
C23_Witness ==
    /\ response = Response("update_index", "not_found", 0)
    /\ Cardinality(store) = 1
    /\ \A p \in Workers : proc[p] = Idle

\* C24: clear_index that returns leaves no row in the index and returns
\* the number of rows there were; the index jobs, the suggestions and the
\* logged search queries are unchanged.
C24_ClearReturnsCount ==
    [][\A p \in Workers :
          ClearIndex(p, "none") =>
             /\ store' = {}
             /\ response' = Response("clear_index", "ok", Cardinality(store))
             /\ UNCHANGED <<jobs, suggestions, queryLog>>]_vars

\* clear_index has removed the two documents of a bulk; the job of the
\* bulk is left.
C24_Witness ==
    /\ response = Response("clear_index", "ok", 2)
    /\ store = {}
    /\ Len(jobs) = 1
    /\ jobs[1].documents_processed = 2

\* The documents fetch_all_documents is to return after the first n
\* sources: those of every source whose fetch succeeded, source after
\* source.
RECURSIVE Expected(_, _)
Expected(answers, n) ==
    IF n = 0 THEN <<>>
    ELSE Expected(answers, n - 1)
         \o (IF answers[n].succeeded
             THEN [k \in 1..answers[n].items |-> Document(DocumentSources[n], k)]
             ELSE <<>>)

\* C25: fetch_all_documents never raises; a call that has a failed fetch
\* behind it goes on to the next source, and a call that has returned has
\* fetched every source, in the order of DocumentSources, and returns the
\* documents of the sources whose fetch succeeded, in that order, with
\* none from a source whose fetch failed.
C25_FailedSourceSkipped ==
    /\ fetching.pc # "raised"
    /\ fetching.pc \in {"fetching", "returned"} =>
          /\ Len(fetching.answers) = fetching.i - 1
          /\ fetching.all_documents = Expected(fetching.answers, fetching.i - 1)
    /\ fetching.pc = "returned" =>
          Len(fetching.answers) = Len(DocumentSources)

\* The call has returned the documents of the first and the last source;
\* the fetches of the three sources between them failed.
C25_Witness ==
    /\ fetching.pc = "returned"
    /\ fetching.answers[1].succeeded /\ fetching.answers[1].items = 2
    /\ \A n \in 2..4 : ~fetching.answers[n].succeeded
    /\ fetching.answers[5].succeeded /\ fetching.answers[5].items = 1
    /\ fetching.all_documents =
          <<Document("content", 1), Document("content", 2),
            Document("notifications", 1)>>

\* A row of search_queries without its clicked_result_id.
Logged(row) == [row EXCEPT !.clicked_result_id = NULL]

\* C26: no step removes a row of search_queries or changes a field of a
\* row other than clicked_result_id; track_click for the id of a row sets
\* the clicked_result_id of that row, changes no other row and returns
\* true, and for an id no row has changes nothing and returns false.
C26_LogAppendOnly ==
    [][/\ Len(queryLog') >= Len(queryLog)
       /\ \A k \in 1..Len(queryLog) : Logged(queryLog'[k]) = Logged(queryLog[k])
       /\ \A query_id \in QueryIds, clicked_result_id \in ResultIds :
             TrackClick(query_id, clicked_result_id) =>
                /\ Len(queryLog') = Len(queryLog)
                /\ clicked'.result = (\E k \in 1..Len(queryLog) : queryLog[k].id = query_id)
                /\ \A k \in 1..Len(queryLog) :
                      queryLog'[k].clicked_result_id =
                         IF queryLog[k].id = query_id THEN clicked_result_id
                         ELSE queryLog[k].clicked_result_id]_vars

\* Of two logged searches the second has been clicked: its row carries the
\* result, the first row carries none.
C26_Witness ==
    /\ Len(queryLog) = 2
    /\ clicked = Clicked("track_click", 2, "result-1", TRUE)
    /\ queryLog[1].clicked_result_id = NULL
    /\ queryLog[2].clicked_result_id = "result-1"
    /\ queryLog[2].results_count = 1

\* C27: when the calls of track_suggestion have ended and all of them were
\* for one text (no other text has a row), however their selects and
\* commits were interleaved, none of them has raised, the text has exactly
\* one row, and the usage_count of the row is the number of the calls.
C27_ConcurrentTracksCounted ==
    (/\ \A p \in Workers : tracking[p].pc = "idle"
     /\ tracked.calls > 0
     /\ \A x \in suggestions : x.suggestion_text = Ocean) =>
        /\ tracked.raised = 0
        /\ Cardinality(suggestions) = 1
        /\ \A x \in suggestions : x.usage_count = tracked.calls

\* C28: a row is added to search_queries only by a search whose store
\* query has been executed and whose response is not yet returned, and it
\* carries the total_count of that query; a search that returns a
\* response has added exactly one row, the last one, whose results_count
\* is the total_count of the response; and the suggestions are changed by
\* a search exactly when its query text has three characters or more and
\* is made of letters, digits and spaces, and then by the update of the
\* row of that text.
C28_SearchLogsOnce ==
    [][/\ queryLog' # queryLog =>
             /\ searching.pc = "queried"
             /\ searching'.pc = "tracked"
             /\ searched' = searched
             /\ Len(queryLog') = Len(queryLog) + 1
             /\ SubSeq(queryLog', 1, Len(queryLog)) = queryLog
             /\ queryLog'[Len(queryLog')].query_text = searching.request.query
             /\ queryLog'[Len(queryLog')].results_count = searching.total_count
       /\ (searching.pc # "idle" /\ searching'.pc = "idle") =>
             /\ searching.pc = "suggested"
             /\ searched'.status = 200
             /\ searched'.request = searching.request
             /\ Len(queryLog) = searching.logged + 1
             /\ queryLog' = queryLog
             /\ queryLog[Len(queryLog)].query_text = searched'.request.query
             /\ queryLog[Len(queryLog)].results_count = searched'.total_count
       /\ (searching.pc = "tracked" /\ searching'.pc = "suggested") =>
             LET text == searching.request.query
             IN IF Len(text) >= 3 /\ IsAlnum(text)
                THEN /\ suggestions' # suggestions
                     /\ \E x \in suggestions' :
                           /\ x.suggestion_text = text
                           /\ suggestions' \ {x} =
                                 {y \in suggestions : y.suggestion_text # text}
                ELSE suggestions' = suggestions
       /\ suggestions' # suggestions => searching.pc = "tracked"]_vars

\* A search for "ocean" with pages of one result, over two documents that
\* match, has returned: one result, total_count 2, and the one row it
\* logged has results_count 2; the search has its suggestion.
C28_Witness ==
    /\ searching.pc = "idle"
    /\ searched.op = "search"
    /\ searched.status = 200
    /\ Len(searched.results) = 1
    /\ searched.total_count = 2
    /\ Len(queryLog) = 1
    /\ queryLog[1].results_count = 2
    /\ \E x \in suggestions : x.suggestion_text = Ocean /\ x.usage_count = 1

\* C29: index_document that commits for a document_id it found indexed
\* leaves the id, the document_type and indexed_at of the row as they
\* were, whatever document_type the request carries, gives the row the
\* title of the request, and changes no other row.
C29_ReindexKeepsIdentity ==
    [][\A p \in Workers :
          (IndexDocumentCommit(p, "none") /\ proc[p].existing # NoRow) =>
             \E cur \in store, new \in store' :
                /\ cur.id = proc[p].existing.id
                /\ new.id = cur.id
                /\ new.document_id = cur.document_id
                /\ new.document_type = cur.document_type
                /\ new.indexed_at = cur.indexed_at
                /\ new.title = proc[p].request.title
                /\ store' \ {new} = store \ {cur}]_vars

\* After a bulk of two articles, index_document with a story for the
\* first document: its row has the new title and is still an article, and
\* the row of the other document is there.
C29_Witness ==
    /\ response.op = "index_document"
    /\ response.result = "ok"
    /\ Cardinality(store) = 2
    /\ \E x \in store :
          /\ x.id = response.value
          /\ x.title = "Updated Title"
          /\ x.document_type = "article"
    /\ \E x \in store : x.title = "Ocean Policy"

\* A highlighted text without its markers.
Unmarked(text) ==
    SelectSeq(text, LAMBDA c : c \notin {"<mark>", "</mark>"})

\* C30: for a query of one term, the highlighted text without its markers
\* is the text that was highlighted, letter for letter and case for case.
C30_HighlightOnlyWraps ==
    highlighting.query # <<>> =>
        Unmarked(highlighting.highlighted) = highlighting.text

====
